---- MODULE Spec2Model ----
(***************************************************************************)
(* Model of trend/app.py: the /trends request handler, the fetch-and-      *)
(* normalize step get_trending_keywords and the synthetic fallback         *)
(* generator generate_synthetic_related_queries.                           *)
(*                                                                         *)
(* Python strings on which the code computes (split, strip, lower, `in`,   *)
(* concatenation) are sequences of one-character strings.  Strings that    *)
(* are only compared as a whole (timeframes) are TLA+ strings.             *)
(***************************************************************************)
EXTENDS Integers, Sequences, FiniteSets, TLC

VARIABLES request, response, calls, fetch, gen

vars == <<request, response, calls, fetch, gen>>

(***************************************************************************)
(* Bounds of the model.                                                    *)
(***************************************************************************)
\* random.shuffle outcomes considered: rotations of the list by 0..MaxRot
MaxRot == 2

(***************************************************************************)
(* String helpers (Python str methods).                                    *)
(***************************************************************************)
Range(s) == { s[i] : i \in DOMAIN s }

UpperChars == <<"A","B","C","D","E","F","G","H","I","J","K","L","M","N","O","P","Q","R","S","T","U","V","W","X","Y","Z">>

LowerChars == <<"a","b","c","d","e","f","g","h","i","j","k","l","m","n","o","p","q","r","s","t","u","v","w","x","y","z">>

\* str.lower() on one character
LowerChar(c) ==
  IF \E i \in DOMAIN UpperChars : UpperChars[i] = c
    THEN LowerChars[CHOOSE i \in DOMAIN UpperChars : UpperChars[i] = c]
    ELSE c

\* str.lower()
Lower(s) == [ i \in DOMAIN s |-> LowerChar(s[i]) ]

\* a in b, for strings
IsSubstring(a, b) ==
  \E i \in 0..(Len(b) - Len(a)) : SubSeq(b, i + 1, i + Len(a)) = a

Whitespace == {" ", "\t"}

\* str.strip()
Strip(s) ==
  LET nonws == { i \in DOMAIN s : s[i] \notin Whitespace }
  IN IF nonws = {} THEN <<>>
     ELSE LET lo == CHOOSE i \in nonws : \A j \in nonws : i <= j
              hi == CHOOSE i \in nonws : \A j \in nonws : i >= j
          IN SubSeq(s, lo, hi)

\* str.split(','): the pieces between commas, empty pieces included
RECURSIVE SplitFrom(_, _, _)
SplitFrom(s, i, cur) ==
  IF i > Len(s) THEN <<cur>>
  ELSE IF s[i] = "," THEN <<cur>> \o SplitFrom(s, i + 1, <<>>)
  ELSE SplitFrom(s, i + 1, Append(cur, s[i]))

Split(s) == SplitFrom(s, 1, <<>>)

\* ", ".join(list) / ','.join(list) on whole-string items: the pieces in order
RECURSIVE Join(_, _)
Join(sep, list) ==
  IF list = <<>> THEN <<>>
  ELSE IF Len(list) = 1 THEN <<list[1]>>
  ELSE <<list[1], sep>> \o Join(sep, Tail(list))

(***************************************************************************)
(* Config                                                                  *)
(***************************************************************************)
DEFAULT_KEYWORDS == <<"A","I",",","C","h","a","t","G","P","T">>

DEFAULT_TIMEFRAME == "now 7-d"

VALID_TIMEFRAMES ==
  <<"now 1-H", "now 4-H", "now 1-d", "now 7-d", "today 1-m", "today 3-m",
    "today 12-m", "today+5-y", "all">>

\* the filler keyword appended when fewer than two keywords are given
FILLER == <<"n","e","w","s">>

(***************************************************************************)
(* Utility functions                                                       *)
(***************************************************************************)
parse_keywords(keyword_str) ==
  LET parts == Split(keyword_str)
      stripped == [ i \in DOMAIN parts |-> Strip(parts[i]) ]
  IN SelectSeq(stripped, LAMBDA p : p # <<>>)

is_valid_timeframe_first_only(timeframe) == timeframe = VALID_TIMEFRAMES[1]

is_valid_timeframe(timeframe) == timeframe \in Range(VALID_TIMEFRAMES)

(***************************************************************************)
(* Synthetic fallback generator                                            *)
(***************************************************************************)
\* the keys of synthetic_data, in insertion order
CategoryOrder ==
  << <<"t","e","c","h">>, <<"A","I">>, <<"p","o","l","i","t","i","c","s">>, <<"s","p","o","r","t","s">>, <<"h","e","a","l","t","h">>, <<"n","e","w","s">> >>

Categories == Range(CategoryOrder)

synthetic_data ==
  [ c \in Categories |->
      CASE c = <<"t","e","c","h">> ->
             << <<"a","r","t","i","f","i","c","i","a","l"," ","i","n","t","e","l","l","i","g","e","n","c","e">>, <<"m","a","c","h","i","n","e"," ","l","e","a","r","n","i","n","g">>, <<"b","l","o","c","k","c","h","a","i","n">>,
                <<"c","l","o","u","d"," ","c","o","m","p","u","t","i","n","g">>, <<"c","y","b","e","r","s","e","c","u","r","i","t","y">>, <<"5","G">>,
                <<"q","u","a","n","t","u","m"," ","c","o","m","p","u","t","i","n","g">>, <<"d","a","t","a"," ","s","c","i","e","n","c","e">>, <<"I","o","T">> >>
        [] c = <<"A","I">> ->
             << <<"C","h","a","t","G","P","T">>, <<"G","P","T","-","4">>, <<"m","a","c","h","i","n","e"," ","l","e","a","r","n","i","n","g">>, <<"n","e","u","r","a","l"," ","n","e","t","w","o","r","k","s">>,
                <<"d","e","e","p"," ","l","e","a","r","n","i","n","g">>, <<"A","I"," ","i","m","a","g","e"," ","g","e","n","e","r","a","t","i","o","n">>,
                <<"n","a","t","u","r","a","l"," ","l","a","n","g","u","a","g","e"," ","p","r","o","c","e","s","s","i","n","g">>, <<"c","o","m","p","u","t","e","r"," ","v","i","s","i","o","n">> >>
        [] c = <<"p","o","l","i","t","i","c","s">> ->
             << <<"e","l","e","c","t","i","o","n","s">>, <<"d","e","m","o","c","r","a","c","y">>, <<"v","o","t","i","n","g">>, <<"g","o","v","e","r","n","m","e","n","t">>, <<"p","o","l","i","c","y">>,
                <<"c","o","n","g","r","e","s","s">>, <<"p","r","e","s","i","d","e","n","t">>, <<"l","e","g","i","s","l","a","t","i","o","n">>, <<"s","e","n","a","t","o","r">> >>
        [] c = <<"s","p","o","r","t","s">> ->
             << <<"f","o","o","t","b","a","l","l">>, <<"b","a","s","k","e","t","b","a","l","l">>, <<"s","o","c","c","e","r">>, <<"t","e","n","n","i","s">>, <<"o","l","y","m","p","i","c","s">>,
                <<"c","h","a","m","p","i","o","n","s","h","i","p">>, <<"w","o","r","l","d"," ","c","u","p">>, <<"t","o","u","r","n","a","m","e","n","t">>, <<"a","t","h","l","e","t","e">> >>
        [] c = <<"h","e","a","l","t","h">> ->
             << <<"f","i","t","n","e","s","s">>, <<"n","u","t","r","i","t","i","o","n">>, <<"w","e","l","l","n","e","s","s">>, <<"m","e","n","t","a","l"," ","h","e","a","l","t","h">>,
                <<"h","e","a","l","t","h","c","a","r","e">>, <<"m","e","d","i","t","a","t","i","o","n">>, <<"e","x","e","r","c","i","s","e">>, <<"d","i","e","t">>,
                <<"m","e","d","i","c","a","l"," ","r","e","s","e","a","r","c","h">> >>
        [] c = <<"n","e","w","s">> ->
             << <<"b","r","e","a","k","i","n","g"," ","n","e","w","s">>, <<"w","o","r","l","d"," ","n","e","w","s">>, <<"l","o","c","a","l"," ","n","e","w","s">>, <<"p","o","l","i","t","i","c","s">>,
                <<"e","c","o","n","o","m","y">>, <<"c","l","i","m","a","t","e">>, <<"t","e","c","h","n","o","l","o","g","y">>, <<"e","n","t","e","r","t","a","i","n","m","e","n","t">>,
                <<"s","p","o","r","t","s"," ","n","e","w","s">> >> ]

\* the category a keyword is matched to (the body of the matching block)
match_category_one_direction(keyword) ==
  LET keyword_lower == Lower(keyword)
      hits == { i \in DOMAIN CategoryOrder :
                  IsSubstring(Lower(CategoryOrder[i]), keyword_lower) }
  IN IF keyword_lower \in Categories THEN keyword_lower
     ELSE IF hits # {}
       THEN CategoryOrder[CHOOSE i \in hits : \A j \in hits : i <= j]
     ELSE <<"n","e","w","s">>

match_category(keyword) ==
  LET keyword_lower == Lower(keyword)
      hits == { i \in DOMAIN CategoryOrder :
                  \/ IsSubstring(Lower(CategoryOrder[i]), keyword_lower)
                  \/ IsSubstring(keyword_lower, Lower(CategoryOrder[i])) }
  IN IF keyword_lower \in Categories THEN keyword_lower
     ELSE IF hits # {}
       THEN CategoryOrder[CHOOSE i \in hits : \A j \in hits : i <= j]
     ELSE <<"n","e","w","s">>

\* random.shuffle(list): the outcome numbered k is the rotation by k
Shuffle(list, k) ==
  [ i \in DOMAIN list |-> list[((i - 1 + k) % Len(list)) + 1] ]

\* related_terms[:5]
FirstN(list, n) == SubSeq(list, 1, IF Len(list) < n THEN Len(list) ELSE n)

\* related_terms[-4:]
LastN(list, n) ==
  SubSeq(list, (IF Len(list) < n THEN 0 ELSE Len(list) - n) + 1, Len(list))

\* random.randint(70, 100) and random.randint(150, 300)
TOP_LO == 70

TOP_HI == 100

TOP_STEP == 10

RISING_LO == 150

RISING_HI == 300

\* draws considered for a run of randint calls: each draw is an end of the
\* range, the run is constant or alternating
DrawRuns(lo, hi, n) ==
  { [ i \in 1..n |-> IF alt /\ i % 2 = 0 THEN (IF first = lo THEN hi ELSE lo)
                     ELSE first ] : first \in {lo, hi}, alt \in BOOLEAN }

\* the random outcomes of one iteration of the keyword loop
RndOne ==
  [ shuffle : 0..MaxRot,
    top     : DrawRuns(TOP_LO, TOP_HI, 5),
    rising  : { d \in DrawRuns(RISING_LO, RISING_HI, 4) : d[1] = d[2] } ]

RndFor(keywords) == [ DOMAIN keywords -> RndOne ]

top_queries_no_slice(keyword, related_terms, draws) ==
  [ i \in DOMAIN related_terms |->
      [ query |-> keyword \o <<" ">> \o related_terms[i],
        value |-> draws[((i - 1) % 5) + 1] - ((i - 1) * TOP_STEP) ] ]

\* the 'top' loop; enumerate() counts from 0
top_queries(keyword, related_terms, draws) ==
  LET terms == FirstN(related_terms, 5)
  IN [ i \in DOMAIN terms |->
         [ query |-> keyword \o <<" ">> \o terms[i],
           value |-> draws[i] - ((i - 1) * TOP_STEP) ] ]

rising_queries_last5(keyword, related_terms, draws) ==
  LET terms == LastN(related_terms, 5)
  IN [ i \in DOMAIN terms |->
         [ query |-> keyword \o <<" ">> \o terms[i],
           value |-> draws[((i - 1) % 4) + 1] ] ]

\* the 'rising' loop
rising_queries(keyword, related_terms, draws) ==
  LET terms == LastN(related_terms, 4)
  IN [ i \in DOMAIN terms |->
         [ query |-> keyword \o <<" ">> \o terms[i],
           value |-> draws[i] ] ]

\* the keyword loop: data is synthetic_data as shuffled in place so far,
\* output the dict built so far
RECURSIVE synthetic_loop(_, _, _, _, _)
synthetic_loop(keywords, rnd, i, data, output) ==
  IF i > Len(keywords) THEN output
  ELSE
    LET keyword == keywords[i]
        matched_category == match_category(keyword)
        related_terms == Shuffle(data[matched_category], rnd[i].shuffle)
        entry == [ top    |-> top_queries(keyword, related_terms, rnd[i].top),
                   rising |-> rising_queries(keyword, related_terms, rnd[i].rising) ]
    IN synthetic_loop(keywords, rnd, i + 1,
         [ data EXCEPT ![matched_category] = related_terms ],
         [ k \in (DOMAIN output) \cup {keyword} |->
             IF k = keyword THEN entry ELSE output[k] ])

generate_synthetic_related_queries(keywords, rnd) ==
  synthetic_loop(keywords, rnd, 1, synthetic_data, <<>>)

(***************************************************************************)
(* The upstream trend client (pytrends), as the code uses it.  Its         *)
(* behaviour is an input: each call may raise, related_queries may return  *)
(* None, an empty or a non-mapping value, or a dict over the payload's     *)
(* keywords.                                                                *)
(***************************************************************************)
\* a pandas DataFrame, column by column
Frame(queries, values) == [ kind |-> "frame", query |-> queries, value |-> values ]

FrameValues ==
  { Frame(<<>>, <<>>), Frame(<< <<"g","p","t">> >>, <<100>>) }

\* DataFrame.to_dict(orient='records')
to_dict_records(frame) ==
  [ i \in DOMAIN frame.query |->
      [ query |-> frame.query[i], value |-> frame.value[i] ] ]

\* what data['top'] / data['rising'] can be: key absent, None, a value
\* without to_dict, a value whose to_dict raises, a DataFrame
SubTableValues ==
  { [kind |-> "absent"], [kind |-> "none"], [kind |-> "nottabular"],
    [kind |-> "raising"] } \cup FrameValues

CoarseSubTableValues ==
  { [kind |-> "none"], [kind |-> "nottabular"], Frame(<< <<"g","p","t">> >>, <<100>>) }

\* what the value of one keyword can be: None, a value without .get, a dict
DataValues(subs) ==
  { [kind |-> "none"], [kind |-> "notmapping"] }
  \cup { [kind |-> "dict", top |-> t, rising |-> r] : t \in subs, r \in subs }

UpstreamSlots == {1, 2}

\* the behaviours of the upstream client during one request
Upstreams(subs) ==
  [ ctor_custom : {"ok", "raise"}, ctor_default : {"ok", "raise"},
    build_payload : {"ok"}, related_queries : {"dict"},
    data : [ UpstreamSlots -> DataValues(subs) ] ]
  \cup
  [ ctor_custom : {"ok", "raise"}, ctor_default : {"ok", "raise"},
    build_payload : {"ok"},
    related_queries : {"raise", "none", "empty", "notmapping"},
    data : { [ i \in UpstreamSlots |-> [kind |-> "none"] ] } ]
  \cup
  [ ctor_custom : {"ok", "raise"}, ctor_default : {"ok", "raise"},
    build_payload : {"raise"}, related_queries : {"none"},
    data : { [ i \in UpstreamSlots |-> [kind |-> "none"] ] } ]

\* pytrends.related_queries() returning a dict: one item per keyword of the
\* payload's kw_list, a repeated keyword keeping its last value
related_queries_dict(kw_list, up) ==
  [ k \in Range(kw_list) |->
      LET last == CHOOSE i \in DOMAIN kw_list :
                    /\ kw_list[i] = k
                    /\ \A j \in DOMAIN kw_list : kw_list[j] = k => j <= i
      IN up.data[((last - 1) % Cardinality(UpstreamSlots)) + 1] ]

(***************************************************************************)
(* get_trending_keywords                                                   *)
(***************************************************************************)
\* an entry of the log of upstream calls: the call and its argument list
Call(name, args) == [ name |-> name, args |-> args ]

\* one of the two try blocks of the normalizing loop
sub_table(data, name) ==
  IF data.kind = "notmapping" THEN <<>>
  ELSE LET t == data[name]
       IN IF t.kind = "frame" THEN to_dict_records(t) ELSE <<>>

normalize_entry_all_or_nothing(data) ==
  IF data.kind = "none" THEN [ top |-> <<>>, rising |-> <<>> ]
  ELSE IF data.kind = "notmapping" THEN [ top |-> <<>>, rising |-> <<>> ]
  ELSE IF data.top.kind \in {"nottabular", "raising"}
          \/ data.rising.kind \in {"nottabular", "raising"}
    THEN [ top |-> <<>>, rising |-> <<>> ]
  ELSE [ top |-> sub_table(data, "top"), rising |-> sub_table(data, "rising") ]

\* the body of the loop over related_queries.items()
normalize_entry(data) ==
  IF data.kind = "none" THEN [ top |-> <<>>, rising |-> <<>> ]
  ELSE [ top |-> sub_table(data, "top"), rising |-> sub_table(data, "rising") ]

normalize(related_queries) ==
  [ kw \in DOMAIN related_queries |-> normalize_entry(related_queries[kw]) ]

all_empty(output) ==
  \A kw \in DOMAIN output :
    Len(output[kw].top) = 0 /\ Len(output[kw].rising) = 0

\* the random outcomes considered when the generator runs inside a request
RndCoarse ==
  [ shuffle : {0, MaxRot},
    top     : { d \in DrawRuns(TOP_LO, TOP_HI, 5) : d[1] = TOP_HI /\ d[2] = TOP_HI },
    rising  : { d \in DrawRuns(RISING_LO, RISING_HI, 4) :
                  d[1] = RISING_LO /\ d[2] = RISING_LO } ]

RndCoarseFor(keywords) == [ DOMAIN keywords -> RndCoarse ]

\* return generate_synthetic_related_queries(keywords), with the calls made
synthetic_return(keywords, made) ==
  { [ result |-> generate_synthetic_related_queries(keywords, rnd),
      calls |-> made ] : rnd \in RndCoarseFor(keywords) }

get_trending_keywords_no_empty_check(keywords, pytrends, up) ==
  IF pytrends = "None" /\ up.ctor_default = "raise"
    THEN synthetic_return(keywords, <<Call("TrendReq()", <<>>)>>)
  ELSE
    LET c0 == IF pytrends = "None" THEN <<Call("TrendReq()", <<>>)>> ELSE <<>>
        kws == IF Len(keywords) < 2 THEN Append(keywords, FILLER) ELSE keywords
        c1 == Append(c0, Call("build_payload", kws))
        c2 == Append(c1, Call("related_queries", <<>>))
    IN IF up.build_payload = "raise" THEN synthetic_return(kws, c1)
       ELSE IF up.related_queries \in {"raise", "none", "empty", "notmapping"}
         THEN synthetic_return(kws, c2)
       ELSE { [ result |-> normalize(related_queries_dict(kws, up)),
                calls |-> c2 ] }

\* the set of (return value, upstream calls made) the function can produce;
\* pytrends is "None" or "client"; keywords.append mutates the caller's list,
\* so every later use sees the filler
get_trending_keywords(keywords, pytrends, up) ==
  IF pytrends = "None" /\ up.ctor_default = "raise"
    THEN synthetic_return(keywords, <<Call("TrendReq()", <<>>)>>)
  ELSE
    LET c0 == IF pytrends = "None" THEN <<Call("TrendReq()", <<>>)>> ELSE <<>>
        kws == IF Len(keywords) < 2 THEN Append(keywords, FILLER) ELSE keywords
        c1 == Append(c0, Call("build_payload", kws))
        c2 == Append(c1, Call("related_queries", <<>>))
    IN IF up.build_payload = "raise" THEN synthetic_return(kws, c1)
       ELSE IF up.related_queries = "raise" THEN synthetic_return(kws, c2)
       ELSE IF up.related_queries \in {"none", "empty"}
         THEN synthetic_return(kws, c2)
       ELSE IF up.related_queries = "notmapping"
         THEN synthetic_return(kws, c2)
       ELSE
         LET output == normalize(related_queries_dict(kws, up))
         IN IF all_empty(output) THEN synthetic_return(kws, c2)
            ELSE { [ result |-> output, calls |-> c2 ] }

(***************************************************************************)
(* Routes                                                                  *)
(***************************************************************************)
\* request.args.get(name, default)
args_get(args, name, default) ==
  IF name \in DOMAIN args THEN args[name] ELSE default

ERROR_KEY == <<"e","r","r","o","r">>

NO_KEYWORDS_MESSAGE == <<"No valid keywords provided.">>

INVALID_TIMEFRAME_MESSAGE ==
  <<"Invalid timeframe. Valid options are: ">> \o Join(", ", VALID_TIMEFRAMES)

\* jsonify({'error': message}), status
error_response(message, status, made) ==
  [ status |-> status, body |-> [ k \in {ERROR_KEY} |-> message ], calls |-> made ]

last_resort_500(keyword_str, made) ==
  { error_response(<<"Internal Server Error">>, 500, made) }

\* the handler's except block
last_resort(keyword_str, made) ==
  LET keywords == parse_keywords(keyword_str)
  IN { [ status |-> 200,
         body |-> generate_synthetic_related_queries(keywords, rnd),
         calls |-> made ] : rnd \in RndCoarseFor(keywords) }

trends_validate_late(args, up) ==
  LET keyword_str == args_get(args, "keywords", DEFAULT_KEYWORDS)
      keywords == parse_keywords(keyword_str)
      timeframe == args_get(args, "timeframe", DEFAULT_TIMEFRAME)
      custom == <<Call("TrendReq(hl, tz, geo)", <<>>)>>
  IN IF keywords = <<>>
       THEN { error_response(NO_KEYWORDS_MESSAGE, 400, <<>>) }
     ELSE IF up.ctor_custom = "raise" /\ up.ctor_default = "raise"
       THEN last_resort(keyword_str, Append(custom, Call("TrendReq()", <<>>)))
     ELSE
       LET made == IF up.ctor_custom = "raise"
                     THEN Append(custom, Call("TrendReq()", <<>>)) ELSE custom
       IN IF ~ is_valid_timeframe(timeframe)
            THEN { error_response(INVALID_TIMEFRAME_MESSAGE, 400, made) }
          ELSE { [ status |-> 200, body |-> r.result, calls |-> made \o r.calls ] :
                   r \in get_trending_keywords(keywords, "client", up) }

\* the set of (status, body, upstream calls made) the handler can answer
trends(args, up) ==
  LET keyword_str == args_get(args, "keywords", DEFAULT_KEYWORDS)
      keywords == parse_keywords(keyword_str)
      timeframe == args_get(args, "timeframe", DEFAULT_TIMEFRAME)
      custom == <<Call("TrendReq(hl, tz, geo)", <<>>)>>
  IN IF keywords = <<>>
       THEN { error_response(NO_KEYWORDS_MESSAGE, 400, <<>>) }
     ELSE IF ~ is_valid_timeframe(timeframe)
       THEN { error_response(INVALID_TIMEFRAME_MESSAGE, 400, <<>>) }
     ELSE IF up.ctor_custom = "raise" /\ up.ctor_default = "raise"
       THEN last_resort(keyword_str, Append(custom, Call("TrendReq()", <<>>)))
     ELSE
       LET made == IF up.ctor_custom = "raise"
                     THEN Append(custom, Call("TrendReq()", <<>>)) ELSE custom
       IN { [ status |-> 200, body |-> r.result, calls |-> made \o r.calls ] :
              r \in get_trending_keywords(keywords, "client", up) }

(***************************************************************************)
(* State: the request being served and its response, the upstream calls    *)
(* made for it, and the direct calls of get_trending_keywords and of the    *)
(* generator.  Nothing persists across requests, so a run serves one.       *)
(***************************************************************************)
Idle == [ op |-> "idle" ]

Init ==
  /\ request = Idle
  /\ response = Idle
  /\ calls = <<>>
  /\ fetch = Idle
  /\ gen = Idle

(***************************************************************************)
(* The generator called on its own.                                        *)
(***************************************************************************)
GenKeywords ==
  { <<"A","I">>, <<"a","i">>, <<"T","e","c","h">>, <<"n","e","w","s">>, <<"N","E","W","S">>, <<"S","p","o","r","t","s">>, <<"C","h","a","t","G","P","T">>, <<"e">>,
    <<"s","p","o","r","t">>, <<"p","o","l">>, <<"h","e","a","l","t","h","c","a","r","e">>, <<"t","e","c","h","n","e","w","s">>, <<"a","i","r","p","o","r","t">>, <<"x","y","z">>,
    <<"p","y","t","h","o","n"," ","3">> }

GenKeywordLists ==
  { <<>> } \cup { <<k>> : k \in GenKeywords }
  \cup { << <<"A","I">>, <<"C","h","a","t","G","P","T">> >>, << <<"A","I">>, <<"A","I">> >>, << <<"a","i">>, <<"A","I">> >>,
         << <<"t","e","c","h">>, <<"e">> >>, << <<"x","y","z">>, <<"n","e","w","s">> >> }

CallGenerate ==
  /\ gen = Idle
  /\ \E keywords \in GenKeywordLists :
       gen' = [ op |-> "called", keywords |-> keywords ]
  /\ UNCHANGED <<request, response, calls, fetch>>

Generate ==
  /\ gen.op = "called"
  /\ \E rnd \in RndFor(gen.keywords) :
       gen' = [ op |-> "generated", keywords |-> gen.keywords,
                output |-> generate_synthetic_related_queries(gen.keywords, rnd) ]
  /\ UNCHANGED <<request, response, calls, fetch>>

GenNext == CallGenerate \/ Generate

SpecGen == Init /\ [][GenNext]_vars

(***************************************************************************)
(* get_trending_keywords called on its own.                                *)
(***************************************************************************)
FetchKeywordLists ==
  { <<>>, << <<"A","I">> >>, << <<"A","I">>, <<"C","h","a","t","G","P","T">> >>, << <<"A","I">>, <<"A","I">> >>,
    << <<"t","e","c","h">>, <<"s","p","o","r","t","s">>, <<"x","y","z">> >> }

\* the constructor outcomes the call can observe
FetchUpstreams(pytrends) ==
  { up \in Upstreams(SubTableValues) :
      /\ up.ctor_custom = "ok"
      /\ pytrends = "client" => up.ctor_default = "ok" }

CallFetch ==
  /\ fetch = Idle
  /\ \E keywords \in FetchKeywordLists, pytrends \in {"None", "client"} :
       \E up \in FetchUpstreams(pytrends) :
         fetch' = [ op |-> "called", keywords |-> keywords,
                    pytrends |-> pytrends, up |-> up ]
  /\ UNCHANGED <<request, response, calls, gen>>

Fetch ==
  /\ fetch.op = "called"
  /\ \E r \in get_trending_keywords(fetch.keywords, fetch.pytrends, fetch.up) :
       fetch' = [ op |-> "fetched", keywords |-> fetch.keywords,
                  pytrends |-> fetch.pytrends, up |-> fetch.up,
                  result |-> r.result, calls |-> r.calls ]
  /\ UNCHANGED <<request, response, calls, gen>>

FetchNext == CallFetch \/ Fetch

SpecFetch == Init /\ [][FetchNext]_vars

(***************************************************************************)
(* The /trends route.                                                      *)
(***************************************************************************)
KeywordArgs ==
  { <<>>, <<",",",">>, <<" ",","," ","\t">>, <<"A","I">>, <<" ","A","I"," ">>, <<"A","I",",","C","h","a","t","G","P","T">>, <<"A","I",",","A","I">>,
    <<"n","e","w","s">>, <<"x","y","z",",">>, <<"a","i",","," ","A","I">>, <<"t","e","c","h",","," ","s","p","o","r","t","s"," ",",","h","e","a","l","t","h">> }

TimeframeArgs ==
  { "now 1-H", "now 7-d", "today+5-y", "all", "bogus", "", "now 7-D" }

\* the query string: each parameter given or left out
RequestArgs ==
  [ keywords : KeywordArgs, timeframe : TimeframeArgs ]
  \cup [ keywords : KeywordArgs ] \cup [ timeframe : TimeframeArgs ]
  \cup { [ x \in {} |-> "" ] }

Receive ==
  /\ request = Idle
  /\ \E args \in RequestArgs :
       request' = [ op |-> "GET /trends", args |-> args ]
  /\ UNCHANGED <<response, calls, fetch, gen>>

\* the upstream behaviours a request can observe: the default constructor
\* runs only after the custom one raised, the calls only on a client
HandlerUpstreams ==
  { up \in Upstreams(CoarseSubTableValues) :
      /\ up.ctor_custom = "ok" => up.ctor_default = "ok"
      /\ up.ctor_default = "raise" =>
            up.build_payload = "raise" }

Trends ==
  /\ request # Idle
  /\ response = Idle
  /\ \E up \in HandlerUpstreams :
       \E r \in trends(request.args, up) :
         /\ response' = [ status |-> r.status, body |-> r.body ]
         /\ calls' = r.calls
  /\ UNCHANGED <<request, fetch, gen>>

Next == Receive \/ Trends

Spec == Init /\ [][Next]_vars

(***************************************************************************)
(* Properties of the /trends route (Spec).                                 *)
(***************************************************************************)
Answered == request # Idle /\ response # Idle

ReqKeywordStr == args_get(request.args, "keywords", DEFAULT_KEYWORDS)

ReqTimeframe == args_get(request.args, "timeframe", DEFAULT_TIMEFRAME)

\* nothing but commas and whitespace: no keyword remains after split/strip
NoKeywordRemains(keyword_str) ==
  \A i \in DOMAIN keyword_str : keyword_str[i] \in Whitespace \cup {","}

\* the distinct keywords the caller supplied: the maximal comma-free pieces,
\* trimmed, that are not empty
InputKeywords(keyword_str) ==
  { Strip(SubSeq(keyword_str, a, b)) :
      <<a, b>> \in { <<x, y>> \in (1..Len(keyword_str)) \X (1..Len(keyword_str)) :
                       /\ x <= y
                       /\ \A i \in x..y : keyword_str[i] # ","
                       /\ x = 1 \/ keyword_str[x - 1] = ","
                       /\ y = Len(keyword_str) \/ keyword_str[y + 1] = "," } }
  \ { <<>> }

TimeframeAllowed(timeframe) ==
  timeframe \in { "now 1-H", "now 4-H", "now 1-d", "now 7-d", "today 1-m",
                  "today 3-m", "today 12-m", "today+5-y", "all" }

PassesValidation ==
  ~ NoKeywordRemains(ReqKeywordStr) /\ TimeframeAllowed(ReqTimeframe)

\* C1: a request with at least one keyword and a valid timeframe is answered
\* 200 with exactly the distinct input keywords as the body's top-level keys.
C1_KeysAreInputKeywords ==
  (Answered /\ PassesValidation) =>
    /\ response.status = 200
    /\ DOMAIN response.body = InputKeywords(ReqKeywordStr)

IsSequence(x) == DOMAIN x = 1..Len(x)

\* C2: every request that passes validation is answered 200 with 'top' and
\* 'rising' present as sequences for every keyword, whichever upstream step
\* failed.
C2_ValidatedAlways200WellShaped ==
  (Answered /\ PassesValidation) =>
    /\ response.status = 200
    /\ \A k \in DOMAIN response.body :
         /\ DOMAIN response.body[k] = {"top", "rising"}
         /\ IsSequence(response.body[k].top)
         /\ IsSequence(response.body[k].rising)

\* both constructors raised and the request was still answered 200
C2_Witness ==
  /\ Answered /\ PassesValidation
  /\ response.status = 200
  /\ Len(calls) = 2 /\ calls[2].name = "TrendReq()"
  /\ DOMAIN response.body # {}

\* C3: 400 with an 'error' field exactly when no keyword remains or the
\* timeframe is not allowed; the keyword error wins when both hold; the
\* timeframe error lists every valid option.
C3_400IffValidationFails ==
  Answered =>
    /\ (response.status = 400 /\ ERROR_KEY \in DOMAIN response.body)
         <=> (NoKeywordRemains(ReqKeywordStr) \/ ~ TimeframeAllowed(ReqTimeframe))
    /\ response.status \in {200, 400}
    /\ NoKeywordRemains(ReqKeywordStr) =>
         response.body[ERROR_KEY] = <<"No valid keywords provided.">>
    /\ (~ NoKeywordRemains(ReqKeywordStr) /\ ~ TimeframeAllowed(ReqTimeframe)) =>
         /\ response.body[ERROR_KEY][1] = "Invalid timeframe. Valid options are: "
         /\ \A i \in DOMAIN VALID_TIMEFRAMES :
              VALID_TIMEFRAMES[i] \in Range(Tail(response.body[ERROR_KEY]))

\* both validations fail and the keyword error is the one reported
C3_Witness ==
  /\ Answered
  /\ NoKeywordRemains(ReqKeywordStr) /\ ~ TimeframeAllowed(ReqTimeframe)
  /\ response.status = 400
  /\ response.body[ERROR_KEY] = <<"No valid keywords provided.">>

\* C4: a request answered 400 made no upstream call: no client constructed,
\* no build_payload, no related_queries.
C4_NoUpstreamCallBefore400 ==
  (Answered /\ response.status = 400) => calls = <<>>

\* a 400 for the timeframe, with keywords that would have been fetched
C4_Witness ==
  /\ Answered /\ response.status = 400
  /\ ~ NoKeywordRemains(ReqKeywordStr) /\ ~ TimeframeAllowed(ReqTimeframe)
  /\ calls = <<>>

(***************************************************************************)
(* Properties of get_trending_keywords (SpecFetch).                        *)
(***************************************************************************)
Fetched == fetch.op = "fetched"

\* related_queries was called and returned a dict
GotDict ==
  /\ Fetched
  /\ fetch.calls # <<>> /\ fetch.calls[Len(fetch.calls)].name = "related_queries"
  /\ fetch.up.related_queries = "dict"

\* the dict it returned, over the kw_list handed to build_payload
RawDict ==
  related_queries_dict(fetch.calls[Len(fetch.calls) - 1].args, fetch.up)

SomeNonEmpty(output) ==
  \E kw \in DOMAIN output : output[kw].top # <<>> \/ output[kw].rising # <<>>

\* what the generator returns: every keyword with 5 'top' and 4 'rising'
\* entries whose queries start with the keyword and a space
LooksSynthetic(output) ==
  \A kw \in DOMAIN output :
    /\ Len(output[kw].top) = 5 /\ Len(output[kw].rising) = 4
    /\ \A e \in Range(output[kw].top) \cup Range(output[kw].rising) :
         /\ Len(e.query) > Len(kw) + 1
         /\ SubSeq(e.query, 1, Len(kw) + 1) = kw \o <<" ">>

Malformed(data, name) ==
  data.kind = "dict" /\ data[name].kind \in {"nottabular", "raising"}

\* the dict with one keyword's sub-table taken out
WithAbsent(raw, kw, name) ==
  [ raw EXCEPT ![kw] = [ @ EXCEPT ![name] = [kind |-> "absent"] ] ]

\* C9: a sub-table that is not tabular or whose conversion raises gives the
\* empty sequence for that sub-table only: everything else is converted as
\* if it had been absent, and is returned unless nothing at all is left; a
\* keyword whose value is None gets two empty sequences.
C9_MalformedSubTableIsLocal ==
  GotDict =>
    \A kw \in DOMAIN RawDict :
      /\ RawDict[kw].kind = "none" =>
           normalize(RawDict)[kw] = [ top |-> <<>>, rising |-> <<>> ]
      /\ \A name \in {"top", "rising"} :
           Malformed(RawDict[kw], name) =>
             LET asAbsent == normalize(WithAbsent(RawDict, kw, name))
             IN /\ normalize(RawDict)[kw][name] = <<>>
                /\ normalize(RawDict) = asAbsent
                /\ SomeNonEmpty(asAbsent) => fetch.result = asAbsent

\* a malformed 'top' next to a genuine 'rising' that is returned
C9_Witness ==
  /\ GotDict
  /\ \E kw \in DOMAIN RawDict :
       /\ Malformed(RawDict[kw], "top")
       /\ RawDict[kw].rising.kind = "frame"
       /\ fetch.result[kw].top = <<>>
       /\ Len(fetch.result[kw].rising) = 1
       /\ fetch.result[kw].rising[1].value = 100

(***************************************************************************)
(* Properties of generate_synthetic_related_queries (SpecGen).             *)
(***************************************************************************)
Generated == gen.op = "generated"

\* the part of a query after the keyword and the space
TermOf(keyword, entry) == SubSeq(entry.query, Len(keyword) + 2, Len(entry.query))

TermsOf(keyword, entries) == { TermOf(keyword, entries[i]) : i \in DOMAIN entries }

Vocabulary == UNION { Range(synthetic_data[c]) : c \in Categories }

\* C6: one entry per distinct input keyword, 'top' with 1..5 entries,
\* 'rising' with 1..4 entries, every query the keyword, a space, a term.
C6_SyntheticShape ==
  Generated =>
    /\ DOMAIN gen.output = Range(gen.keywords)
    /\ \A kw \in DOMAIN gen.output :
         /\ Len(gen.output[kw].top) \in 1..5
         /\ Len(gen.output[kw].rising) \in 1..4
         /\ \A e \in Range(gen.output[kw].top) \cup Range(gen.output[kw].rising) :
              \E term \in Vocabulary : e.query = kw \o <<" ">> \o term

\* a repeated keyword gives one entry
C6_Witness ==
  /\ Generated
  /\ Len(gen.keywords) = 2 /\ gen.keywords[1] = gen.keywords[2]
  /\ Cardinality(DOMAIN gen.output) = 1
  /\ \A kw \in DOMAIN gen.output :
       Len(gen.output[kw].top) = 5 /\ Len(gen.output[kw].rising) = 4

Related(category, keyword) ==
  \/ IsSubstring(Lower(category), Lower(keyword))
  \/ IsSubstring(Lower(keyword), Lower(category))

\* the categories the stated rule allows for a keyword
AllowedCategories(keyword) ==
  IF \E c \in Categories : Lower(c) = Lower(keyword)
    THEN { c \in Categories : Lower(c) = Lower(keyword) }
  ELSE IF \E c \in Categories : Related(c, keyword)
    THEN { c \in Categories : Related(c, keyword) }
  ELSE { <<"n","e","w","s">> }

\* C7: the category is the one equal to the keyword ignoring case, else one
\* that contains the keyword or is contained in it, else 'news', and every
\* term of the keyword's 'top' and 'rising' is a term of that category.
C7_TermsFromMatchedCategory ==
  Generated =>
    \A kw \in DOMAIN gen.output :
      \E c \in AllowedCategories(kw) :
        TermsOf(kw, gen.output[kw].top) \cup TermsOf(kw, gen.output[kw].rising)
          \subseteq Range(synthetic_data[c])

\* keyword "sport" is served from the 'sports' terms
C7_Witness ==
  /\ Generated
  /\ gen.keywords = << <<"s","p","o","r","t">> >>
  /\ TermsOf(<<"s","p","o","r","t">>, gen.output[<<"s","p","o","r","t">>].top)
       \subseteq Range(synthetic_data[<<"s","p","o","r","t","s">>])
  /\ <<"f","o","o","t","b","a","l","l">> \in TermsOf(<<"s","p","o","r","t">>, gen.output[<<"s","p","o","r","t">>].top)

\* C8: the values of a keyword's 'top' never increase along the sequence.
C8_TopValuesDescending ==
  Generated =>
    \A kw \in DOMAIN gen.output :
      \A i \in 1..(Len(gen.output[kw].top) - 1) :
        gen.output[kw].top[i].value >= gen.output[kw].top[i + 1].value

Max(a, b) == IF a > b THEN a ELSE b

\* C10: the terms of 'top' are pairwise distinct, so are those of 'rising',
\* and exactly max(0, 9 - n) terms are in both, n the size of the matched
\* category's term list.
C10_TermOverlap ==
  Generated =>
    \A kw \in DOMAIN gen.output :
      LET top == gen.output[kw].top
          rising == gen.output[kw].rising
          n == Len(synthetic_data[match_category(kw)])
      IN /\ Cardinality(TermsOf(kw, top)) = Len(top)
         /\ Cardinality(TermsOf(kw, rising)) = Len(rising)
         /\ Cardinality(TermsOf(kw, top) \cap TermsOf(kw, rising)) = Max(0, 9 - n)

\* keyword "AI": 8 terms, one of them in both sequences
C10_Witness ==
  /\ Generated
  /\ gen.keywords = << <<"A","I">> >>
  /\ Cardinality(TermsOf(<<"A","I">>, gen.output[<<"A","I">>].top)
                   \cap TermsOf(<<"A","I">>, gen.output[<<"A","I">>].rising)) = 1
  /\ Cardinality(TermsOf(<<"A","I">>, gen.output[<<"A","I">>].top)
                   \cup TermsOf(<<"A","I">>, gen.output[<<"A","I">>].rising)) = 8

====
